---- MODULE Spec2Model ----
(***************************************************************************)
(* Orientation::isCCW of src/algorithm/Orientation.cpp as a state machine. *)
(* One behaviour is one call: the ring argument is drawn in Init, the      *)
(* locals of the call are the variables, and every loop iteration of the   *)
(* function is one step.  Coordinates are integers of a small grid, so the *)
(* double comparisons and the one subtraction of the code are exact.       *)
(***************************************************************************)
EXTENDS Integers, Sequences, FiniteSets, TLC

\* ------------------------------------------------------------------ bounds
MaxX == 1
MaxY == 2
MaxLen == 4

\* ------------------------------------------------- coordinates and rings
\* Coordinate::setNull() stores NaN in x and y; NaN is kept apart from every
\* grid coordinate and compares unequal to everything, itself included.
NaN == -1

Xs == 0 .. MaxX
Ys == 0 .. MaxY
Points == [x : Xs, y : Ys]
Null == [x |-> NaN, y |-> NaN]

Pt(px, py) == [x |-> px, y |-> py]

equals2D(a, b) ==
  /\ a.x # NaN /\ b.x # NaN /\ a.x = b.x
  /\ a.y # NaN /\ b.y # NaN /\ a.y = b.y

SeqsOfLen(n) == [1 .. n -> Points]
\* a ring closed by repeating its first point
Close(s) == Append(s, s[1])
IsClosed(r) == Len(r) >= 1 /\ r[1] = r[Len(r)]

UnitSquare == << Pt(0,0), Pt(1,0), Pt(1,1), Pt(0,1), Pt(0,0) >>
FlatTopRing == << Pt(0,0), Pt(2,0), Pt(2,1), Pt(1,1), Pt(0,1), Pt(0,0) >>
Chevron == << Pt(0,0), Pt(1,1), Pt(2,0), Pt(1,2), Pt(0,0) >>
Notch == << Pt(0,2), Pt(0,0), Pt(2,0), Pt(2,2), Pt(1,1), Pt(0,2) >>
Reverse(r) == [k \in 1 .. Len(r) |-> r[Len(r) + 1 - k]]
Samples ==
  LET S == {UnitSquare, FlatTopRing, Chevron, Notch}
  IN  S \cup {Reverse(r) : r \in S}

\* every sequence of at most MaxLen points, the closed rings of MaxLen + 1
\* points, and the sample rings
Rings ==
  UNION {SeqsOfLen(n) : n \in 0 .. MaxLen}
    \cup {Close(s) : s \in SeqsOfLen(MaxLen)}
    \cup Samples

\* ----------------------------------------------- CoordinateSequence reads
size(r) == Len(r)
InRange(r, k) == k \in 0 .. (Len(r) - 1)
getAt(r, k) == r[k + 1]
getY(r, k) == r[k + 1].y

\* ------------------------------------------------------ Orientation::index
\* CGAlgorithmsDD::orientationIndex: the exact sign of (p2 - p1) x (q - p1)
COUNTERCLOCKWISE == 1
Sign(v) == IF v > 0 THEN 1 ELSE IF v < 0 THEN -1 ELSE 0
orientationIndex(p1, p2, q) ==
  Sign((p2.x - p1.x) * (q.y - p1.y) - (p2.y - p1.y) * (q.x - p1.x))
index(p1, p2, q) == orientationIndex(p1, p2, q)

\* -------------------------------------------------------- pieces of isCCW
inPtsOf(r) == size(r) - 1
\* the check one point too lenient
TooShort_lenient(inPts) == inPts < 2
TooShort(inPts) == inPts < 3
\* "segment is upwards and endpoint is higher"
\* the endpoint must be strictly higher
Qualifies_strict(py, prevYv, hiY) == py > prevYv /\ py > hiY
\* any upward segment
Qualifies_anyRise(py, prevYv, hiY) == py > prevYv
Qualifies(py, prevYv, hiY) == py > prevYv /\ py >= hiY
\* wrapping at the number of points with the closing point
NextIndex_modN(k, n) == (k + 1) % (n + 1)
\* not wrapping at all
NextIndex_noWrap(k, n) == k + 1
NextIndex(k, n) == (k + 1) % n
\* wrapping to the closing point
PrevIndex_closing(k, n) == IF k > 0 THEN k - 1 ELSE n
PrevIndex(k, n) == IF k > 0 THEN k - 1 ELSE n - 1
WalkContinues(r, k, iHi, hiY) == k # iHi /\ getY(r, k) = hiY
DegenerateCap(lo, hi, dn) ==
  equals2D(lo, hi) \/ equals2D(dn, hi) \/ equals2D(lo, dn)
\* line 125-126: the turn at the apex decides a pointed cap
\* the first two arguments exchanged
CapIndex_swapped(lo, hi, dn) == index(hi, lo, dn)
CapIndex(lo, hi, dn) == index(lo, hi, dn)
\* anything but clockwise
IsCOUNTERCLOCKWISE_notCW(o) == o >= 0
IsCOUNTERCLOCKWISE(o) == o = COUNTERCLOCKWISE
\* line 132-133: the direction of the flat top decides a flat cap
\* the difference taken the other way round
FlatCapCCW_swapped(dnHi, hi) == (hi.x - dnHi.x) < 0
FlatCapCCW(dnHi, hi) == (dnHi.x - hi.x) < 0
BoolStr(b) == IF b THEN "true" ELSE "false"

VARIABLES ring, pc, nPts, i, prevY, upHiPt, upLowPt, iUpHi,
          iDownLow, iDownHi, downLowPt, downHiPt,
          steps, reads, indexCalls, outcome,
          arg, obs, firstOut

vars == << ring, pc, nPts, i, prevY, upHiPt, upLowPt, iUpHi,
           iDownLow, iDownHi, downLowPt, downHiPt,
           steps, reads, indexCalls, outcome,
           arg, obs, firstOut >>

\* what the caller keeps: the ring as it was handed over, the ring whose
\* outcomes are compared, and the first outcome seen for it
callerVars == << arg, obs, firstOut >>

scanVars == << nPts, i, prevY, upHiPt, upLowPt, iUpHi >>
walkVars == << iDownLow, steps >>
capVars == << iDownHi, downLowPt, downHiPt, indexCalls >>

\* the locals before the call declares them
Fresh ==
  /\ nPts = 0 /\ i = 0 /\ prevY = NaN
  /\ upHiPt = Null /\ upLowPt = Null /\ iUpHi = 0
  /\ iDownLow = 0 /\ iDownHi = 0 /\ downLowPt = Null /\ downHiPt = Null
  /\ steps = 0 /\ reads = {} /\ indexCalls = 0 /\ outcome = "none"

Init ==
  /\ ring \in Rings
  /\ pc = "call"
  /\ Fresh
  /\ arg = ring /\ obs = ring /\ firstOut = "none"

\* iUpHi declared without its initialiser: it keeps what was there
ScanStart_stale(r) ==
  [upHiPt |-> getAt(r, 0), prevY |-> getAt(r, 0).y,
   upLowPt |-> Null, iUpHi |-> iUpHi]
\* lines 63-69: the locals of the scan as the call declares them
ScanStart(r) ==
  [upHiPt |-> getAt(r, 0), prevY |-> getAt(r, 0).y,
   upLowPt |-> Null, iUpHi |-> 0]

\* An index outside 0 .. size-1 handed to getAt or getY is undefined
\* behaviour: the call ends with no outcome the caller can rely on.
Undefined(idx) ==
  /\ pc' = "done"
  /\ outcome' = "undefined"
  /\ reads' = reads \cup idx
  /\ UNCHANGED << ring, scanVars, walkVars, capVars >>

Return(b) ==
  /\ pc' = "done"
  /\ outcome' = BoolStr(b)

\* lines 48-69: the sanity check, then the locals of the scan
Enter ==
  /\ UNCHANGED callerVars
  /\ pc = "call"
  /\ IF TooShort(inPtsOf(ring))
       THEN /\ pc' = "done"
            /\ outcome' = "InvalidArgument"
            /\ UNCHANGED << ring, scanVars, walkVars, capVars, reads >>
       ELSE IF ~InRange(ring, 0)
         THEN Undefined({0})
         ELSE /\ nPts' = inPtsOf(ring)
              /\ upHiPt' = ScanStart(ring).upHiPt
              /\ prevY' = ScanStart(ring).prevY
              /\ upLowPt' = ScanStart(ring).upLowPt
              /\ iUpHi' = ScanStart(ring).iUpHi
              /\ i' = 1
              /\ reads' = reads \cup {0}
              /\ pc' = "scan"
              /\ UNCHANGED << ring, walkVars, capVars, outcome >>

\* lines 70-81: one iteration of the for loop
ScanStep ==
  /\ UNCHANGED callerVars
  /\ pc = "scan"
  /\ i <= nPts
  /\ IF ~InRange(ring, i)
       THEN Undefined({i})
       ELSE LET py == getY(ring, i) IN
            IF Qualifies(py, prevY, upHiPt.y)
              THEN IF ~InRange(ring, i - 1)
                     THEN Undefined({i, i - 1})
                     ELSE /\ upHiPt' = getAt(ring, i)
                          /\ iUpHi' = i
                          /\ upLowPt' = getAt(ring, i - 1)
                          /\ prevY' = py
                          /\ i' = i + 1
                          /\ reads' = reads \cup {i, i - 1}
                          /\ UNCHANGED << ring, pc, nPts, walkVars, capVars, outcome >>
              ELSE /\ prevY' = py
                   /\ i' = i + 1
                   /\ reads' = reads \cup {i}
                   /\ UNCHANGED << ring, pc, nPts, upHiPt, upLowPt, iUpHi,
                                   walkVars, capVars, outcome >>

\* lines 85-92: the loop is over; a ring with no rising step is flat
ScanEnd ==
  /\ UNCHANGED callerVars
  /\ pc = "scan"
  /\ i > nPts
  /\ IF iUpHi = 0
       THEN /\ Return(FALSE)
            /\ UNCHANGED << ring, scanVars, walkVars, capVars, reads >>
       ELSE /\ iDownLow' = iUpHi
            /\ pc' = "walk"
            /\ UNCHANGED << ring, scanVars, steps, capVars, reads, outcome >>

\* lines 93-95: one iteration of the do-while loop.  steps counts the
\* iterations and stops counting at nPts.
WalkStep ==
  /\ UNCHANGED callerVars
  /\ pc = "walk"
  /\ LET k == NextIndex(iDownLow, nPts)
         n == IF steps < nPts THEN steps + 1 ELSE steps
     IN  IF k # iUpHi /\ ~InRange(ring, k)
           THEN Undefined({k})
           ELSE /\ iDownLow' = k
                /\ steps' = n
                /\ reads' = IF k # iUpHi THEN reads \cup {k} ELSE reads
                /\ pc' = IF WalkContinues(ring, k, iUpHi, upHiPt.y)
                           THEN "walk" ELSE "cap"
                /\ UNCHANGED << ring, scanVars, capVars, outcome >>

\* lines 97-134: the points after the top, then the shape of the cap
Classify ==
  /\ UNCHANGED callerVars
  /\ pc = "cap"
  /\ LET hi == PrevIndex(iDownLow, nPts) IN
     IF ~InRange(ring, iDownLow) \/ ~InRange(ring, hi)
       THEN Undefined({iDownLow, hi})
       ELSE LET dnLow == getAt(ring, iDownLow)
                dnHi == getAt(ring, hi)
            IN  /\ downLowPt' = dnLow
                /\ iDownHi' = hi
                /\ downHiPt' = dnHi
                /\ reads' = reads \cup {iDownLow, hi}
                /\ IF equals2D(upHiPt, dnHi)
                     THEN IF DegenerateCap(upLowPt, upHiPt, dnLow)
                            THEN /\ Return(FALSE)
                                 /\ indexCalls' = indexCalls
                            ELSE /\ Return(IsCOUNTERCLOCKWISE(CapIndex(upLowPt, upHiPt, dnLow)))
                                 /\ indexCalls' = indexCalls + 1
                     ELSE /\ Return(FlatCapCCW(dnHi, upHiPt))
                          /\ indexCalls' = indexCalls
                /\ UNCHANGED << ring, scanVars, walkVars >>

Next == Enter \/ ScanStep \/ ScanEnd \/ WalkStep \/ Classify

Spec == Init /\ [][Next]_vars

\* ------------------------------------------------------- repeated calls
\* The caller calls again once a call is over, on the observed ring or on
\* another one.  The logs are per call; the locals of the finished call
\* stay where they were until the next call declares them again.
OtherRings == {UnitSquare, Reverse(UnitSquare), << Pt(0,0), Pt(1,0), Pt(0,0) >>}
ObservedRings ==
  UNION {SeqsOfLen(n) : n \in 0 .. (MaxLen - 1)}
    \cup {Close(s) : s \in SeqsOfLen(MaxLen - 1)}

InitCalls ==
  /\ ring \in ObservedRings
  /\ pc = "call"
  /\ Fresh
  /\ arg = ring /\ obs = ring /\ firstOut = "none"

CallAgain ==
  /\ pc = "done"
  /\ \E r \in {obs} \cup OtherRings :
       /\ ring' = r
       /\ arg' = r
  /\ firstOut' = IF ring = obs /\ firstOut = "none" THEN outcome ELSE firstOut
  /\ pc' = "call"
  /\ steps' = 0 /\ reads' = {} /\ indexCalls' = 0 /\ outcome' = "none"
  /\ UNCHANGED << obs, scanVars, iDownLow, iDownHi, downLowPt, downHiPt >>

NextCalls == Next \/ CallAgain

SpecCalls == InitCalls /\ [][NextCalls]_vars

\* ------------------------------------------------ geometry of the claims
N == Len(ring)
Returned == pc = "done" /\ outcome \in {"true", "false"}
\* the for loop is over
ScanOver == (pc = "scan" /\ i > nPts) \/ pc \in {"walk", "cap"} \/ Returned
\* the cap has been classified
Classified == Returned /\ iUpHi # 0

Cross(a, b, c) == (b.x - a.x) * (c.y - a.y) - (b.y - a.y) * (c.x - a.x)
Min(a, b) == IF a < b THEN a ELSE b
Max(a, b) == IF a > b THEN a ELSE b
TopY(r) == CHOOSE m \in {r[k].y : k \in 1 .. Len(r)} :
             \A k \in 1 .. Len(r) : r[k].y <= m
AllSameY(r) == \A j, k \in 1 .. Len(r) : r[j].y = r[k].y
AllCollinear(r) == \A j, k, l \in 1 .. Len(r) : Cross(r[j], r[k], r[l]) = 0

RECURSIVE ShoelaceFrom(_, _)
ShoelaceFrom(r, k) ==
  IF k >= Len(r) THEN 0
  ELSE r[k].x * r[k + 1].y - r[k + 1].x * r[k].y + ShoelaceFrom(r, k + 1)
\* twice the signed area of the ring
Area2(r) == ShoelaceFrom(r, 1)

\* t lies on the closed segment p q
OnSegment(p, q, t) ==
  /\ Cross(p, q, t) = 0
  /\ Min(p.x, q.x) <= t.x /\ t.x <= Max(p.x, q.x)
  /\ Min(p.y, q.y) <= t.y /\ t.y <= Max(p.y, q.y)
\* the closed segments a b and c d have a point in common
SegmentsTouch(a, b, c, d) ==
  \/ /\ Sign(Cross(c, d, a)) * Sign(Cross(c, d, b)) < 0
     /\ Sign(Cross(a, b, c)) * Sign(Cross(a, b, d)) < 0
  \/ OnSegment(c, d, a) \/ OnSegment(c, d, b)
  \/ OnSegment(a, b, c) \/ OnSegment(a, b, d)
\* edge k of a closed ring runs from vertex k to vertex k + 1 (1-based)
AdjacentEdges(r, j, k) ==
  k = j + 1 \/ (j = 1 /\ k = Len(r) - 1)
IsSimpleRing(r) ==
  /\ Len(r) >= 4
  /\ IsClosed(r)
  /\ \A j, k \in 1 .. (Len(r) - 1) : j < k => r[j] # r[k]
  /\ \A j, k \in 1 .. (Len(r) - 1) :
       (j < k /\ ~AdjacentEdges(r, j, k))
         => ~SegmentsTouch(r[j], r[j + 1], r[k], r[k + 1])
  /\ Area2(r) # 0
IsTriangleRing(r) ==
  /\ Len(r) = 4
  /\ IsClosed(r)
  /\ r[1] # r[2] /\ r[2] # r[3] /\ r[1] # r[3]
  /\ Cross(r[1], r[2], r[3]) # 0

\* 0-based index k is a step up to the top of the ring
IsTopRise(r, k) ==
  /\ k \in 1 .. (Len(r) - 1)
  /\ getY(r, k) = TopY(r)
  /\ getY(r, k - 1) < getY(r, k)

\* ------------------------------------------------------------ the claims

\* C1: isCCW raises InvalidArgument exactly when the ring has fewer than 4
\* points (the empty ring included), it has read no element of the ring by
\* then, and a ring of 4 or more points gets a boolean and no error.
C1_TooShortThrows ==
  /\ (N < 4 => reads = {})
  /\ pc = "done" =>
       /\ (outcome = "InvalidArgument") <=> (N < 4)
       /\ (N >= 4 => outcome \in {"true", "false"})
C1_Witness == pc = "done" /\ N = 3 /\ outcome = "InvalidArgument"

\* C2: for a closed simple ring isCCW is true iff the shoelace area is
\* positive; the unit square gives true, and the reversed ring, which is
\* simple with the opposite area, gives the opposite result.
C2_SimpleRingFollowsArea ==
  (pc = "done" /\ IsSimpleRing(ring)) =>
    /\ outcome = BoolStr(Area2(ring) > 0)
    /\ IsSimpleRing(Reverse(ring))
    /\ Area2(Reverse(ring)) = 0 - Area2(ring)
    /\ (ring = UnitSquare => outcome = "true")
    /\ (ring = Reverse(UnitSquare) => outcome = "false")
C2_Witness == pc = "done" /\ ring = UnitSquare /\ outcome = "true"

\* C3: for a ring (a, b, c, a) of three distinct points not on a line,
\* isCCW is true iff index(a, b, c) is COUNTERCLOCKWISE, for a pointed and
\* for a flat top and for every starting vertex.
C3_TriangleFollowsIndex ==
  (pc = "done" /\ IsTriangleRing(ring)) =>
    outcome = BoolStr(index(ring[1], ring[2], ring[3]) = COUNTERCLOCKWISE)
C3_Witness ==
  /\ Classified /\ IsTriangleRing(ring)
  /\ ~equals2D(upHiPt, downHiPt)
  /\ outcome = "true"

\* C4: for a closed ring of 4 or more points the scan leaves iUpHi at 0
\* iff all vertices have the same y; isCCW then returns false and index
\* is not called.
C4_FlatIffSameY ==
  (ScanOver /\ N >= 4 /\ IsClosed(ring)) =>
    /\ (iUpHi = 0) <=> AllSameY(ring)
    /\ (Returned /\ iUpHi = 0) => (outcome = "false" /\ indexCalls = 0)
C4_Witness ==
  /\ Returned /\ N >= 4 /\ IsClosed(ring) /\ AllSameY(ring)
  /\ ring[1] # ring[2]
  /\ iUpHi = 0 /\ outcome = "false"

\* C5: for a closed ring whose cap is flat, downHiPt is the last vertex of
\* the run of vertices at the top y that starts at iUpHi, the difference
\* downHiPt.x - upHiPt.x is not 0, and isCCW is true iff it is negative;
\* the ring (0,0),(2,0),(2,1),(1,1),(0,1),(0,0) gives true.
C5_FlatCap ==
  (Classified /\ N >= 4 /\ IsClosed(ring) /\ ~equals2D(upHiPt, downHiPt)) =>
    /\ \E k \in 0 .. (nPts - 2) :
         /\ \A j \in 0 .. k : getY(ring, (iUpHi + j) % nPts) = TopY(ring)
         /\ getY(ring, (iUpHi + k + 1) % nPts) # TopY(ring)
         /\ downHiPt = getAt(ring, (iUpHi + k) % nPts)
    /\ downHiPt.x - upHiPt.x # 0
    /\ outcome = BoolStr(downHiPt.x - upHiPt.x < 0)
    /\ (ring = FlatTopRing => outcome = "true")
C5_Witness ==
  /\ Classified /\ ring = FlatTopRing
  /\ ~equals2D(upHiPt, downHiPt)
  /\ outcome = "true"

\* C6: a closed ring of 4 or more points that are all on one line gets
\* false and no error.
C6_CollinearIsFalse ==
  (pc = "done" /\ N >= 4 /\ IsClosed(ring) /\ AllCollinear(ring)) =>
    outcome = "false"
C6_Witness ==
  /\ pc = "done" /\ N >= 4 /\ IsClosed(ring) /\ AllCollinear(ring)
  /\ indexCalls = 1 /\ outcome = "false"

\* C7: a call leaves the ring as it was handed over, and every call on
\* the observed ring ends as the first one did, whatever rings were
\* passed in between.
C7_SameOutcome ==
  /\ ring = arg
  /\ (pc = "done" /\ ring = obs /\ firstOut # "none") => outcome = firstOut
C7_Witness ==
  /\ pc = "done" /\ ring = obs /\ N >= 4 /\ AllSameY(ring)
  /\ firstOut = "false" /\ outcome = "false"
  /\ downHiPt # Null

\* C8: for every ring of 4 or more points, closed or not, the call ends:
\* the scan runs nPts times, and the walk from iUpHi # 0 takes at most
\* nPts - 1 steps and stops at an index other than iUpHi whose y differs
\* from upHiPt.y, also when iUpHi is the closing point nPts.
C8_WalkTerminates ==
  N >= 4 =>
    /\ pc = "scan" => i <= nPts + 1
    /\ pc = "walk" => (iUpHi # 0 /\ steps <= nPts - 2)
    /\ (pc = "cap" \/ Classified) =>
         /\ steps \in 1 .. (nPts - 1)
         /\ iDownLow # iUpHi
         /\ iDownLow \in 0 .. (nPts - 1)
         /\ getY(ring, iDownLow) # upHiPt.y
    /\ pc # "done" => ENABLED Next
C8_Witness ==
  /\ pc = "cap" /\ ~IsClosed(ring)
  /\ iUpHi = nPts /\ steps = nPts - 1

\* C9: for a closed ring that reaches the cap classification, iUpHi is the
\* last step up to the top y, upHiPt and upLowPt are the points at iUpHi
\* and before it, upLowPt and downLowPt are below the top and downHiPt is
\* on it; so in a pointed cap neither equals upHiPt and false is returned
\* without index exactly when upLowPt equals downLowPt.
C9_Landmarks ==
  (Classified /\ N >= 4 /\ IsClosed(ring)) =>
    /\ IsTopRise(ring, iUpHi)
    /\ \A k \in 1 .. (N - 1) : IsTopRise(ring, k) => k <= iUpHi
    /\ upHiPt = getAt(ring, iUpHi)
    /\ upLowPt = getAt(ring, iUpHi - 1)
    /\ upLowPt # Null
    /\ upLowPt.y < upHiPt.y
    /\ downLowPt.y < upHiPt.y
    /\ downHiPt.y = upHiPt.y
    /\ equals2D(upHiPt, downHiPt) =>
         /\ ~equals2D(upLowPt, upHiPt)
         /\ ~equals2D(downLowPt, upHiPt)
         /\ (indexCalls = 0) <=> equals2D(upLowPt, downLowPt)
         /\ indexCalls = 0 => outcome = "false"
C9_Witness ==
  /\ Classified /\ N >= 4 /\ IsClosed(ring)
  /\ equals2D(upHiPt, downHiPt)
  /\ equals2D(upLowPt, downLowPt)
  /\ indexCalls = 0

\* C10: for every ring of 4 or more points, closed or not, every index
\* handed to getAt or getY is in 0 .. N-1: the scan reads 0 .. N-1, iUpHi is
\* in 1 .. N-1 when set, iDownLow and iDownHi are in 0 .. N-2, and iDownHi
\* is N-2 exactly when iDownLow is 0.
C10_IndicesInRange ==
  N >= 4 =>
    /\ reads \subseteq 0 .. (N - 1)
    /\ outcome # "undefined"
    /\ ScanOver => (0 .. (N - 1)) \subseteq reads
    /\ iUpHi \in 0 .. (N - 1)
    /\ ((pc = "walk" /\ steps >= 1) \/ pc = "cap" \/ Classified) =>
         iDownLow \in 0 .. (N - 2)
    /\ Classified =>
         /\ iDownHi \in 0 .. (N - 2)
         /\ (iDownHi = N - 2) <=> (iDownLow = 0)
C10_Witness ==
  /\ Classified /\ ~IsClosed(ring)
  /\ iDownLow = 0 /\ iDownHi = N - 2

====
